---- MODULE Spec2Model ----
(***************************************************************************)
(* Model of generate_report.py: the report assembler (build_story), the    *)
(* table builders, the screenshot embedder, the renderer invocation        *)
(* (build_pdf) and the process entry point.                                *)
(*                                                                         *)
(* Lengths are integers: points for sizes, tenths of an inch for column    *)
(* widths, tenths of a point for the divider width.  Prose strings are     *)
(* abbreviated; every string that the control flow or a claim depends on   *)
(* (status labels, style names, file names, messages) is kept verbatim.    *)
(***************************************************************************)
EXTENDS Integers, Sequences, FiniteSets, TLC

VARIABLES
    pc,         \* position of the process (main / build_pdf / build_story / doc.build)
    files,      \* filesystem: state of each configured screenshot file
    outWritable,\* filesystem: can the output path be opened for writing
    diskFull,   \* filesystem: does writing the PDF bytes fail (no space left)
    outFile,    \* filesystem: what lies at the output path
    story,      \* build_story: the list of flowables
    missing,    \* build_story: the local list `missing`
    idx,        \* build_story: position of the screenshot loop (1-based)
    exc,        \* the exception in flight ("" when none)
    rc,         \* main: value returned by build_pdf (-1 before it returns)
    stdout,     \* lines printed to standard output
    stderr,     \* lines printed to standard error
    exitCode,   \* process exit status (-1 while running)
    changes,    \* number of filesystem changes made by the environment
    tblKind,    \* table-builder harness: which builder is applied
    tblRows,    \* table-builder harness: the data rows given
    tblOut      \* table-builder harness: the table returned (NoTable before)

vars == <<pc, files, outWritable, diskFull, outFile, story, missing, idx, exc,
          rc, stdout, stderr, exitCode, changes, tblKind, tblRows, tblOut>>

-----------------------------------------------------------------------------
(* Bounds *)

MaxRows == 2
MaxEnvChanges == 1

-----------------------------------------------------------------------------
(* Configuration & design system *)

PRIMARY_BLUE == "#2E86AB"
SECONDARY_PURPLE == "#A23B72"
ACCENT_ORANGE == "#F18F01"
NEUTRAL_DARK == "#2D2D2D"
NEUTRAL_TEXT == "#3A3A3A"
NEUTRAL_MUTED == "#6F6F6F"
NEUTRAL_BORDER == "#DDDDDD"
WHITE == "white"
WHITESMOKE == "whitesmoke"

SHOT_W == 468
SHOT_H == 288

\* ParagraphStyle(name, parent, fontName, textColor); sizes and leading are
\* not read by any operation of the program and are left out.
ParagraphStyle(name, parent, fontName, textColor) ==
    [name |-> name, parent |-> parent, fontName |-> fontName, textColor |-> textColor]

build_styles ==
    [k \in {"title", "subtitle", "h2", "h2c", "body", "caption", "small", "th", "tc", "callout"} |->
        CASE k = "title"    -> ParagraphStyle("Title", "ss.Title", "Helvetica-Bold", PRIMARY_BLUE)
          [] k = "subtitle" -> ParagraphStyle("Subtitle", "ss.Normal", "Helvetica", NEUTRAL_MUTED)
          [] k = "h2"       -> ParagraphStyle("H2", "ss.Heading2", "Helvetica-Bold", NEUTRAL_DARK)
          [] k = "h2c"      -> ParagraphStyle("H2Color", "H2", "Helvetica-Bold", PRIMARY_BLUE)
          [] k = "body"     -> ParagraphStyle("Body", "ss.BodyText", "Helvetica", NEUTRAL_TEXT)
          [] k = "caption"  -> ParagraphStyle("Caption", "ss.Italic", "Helvetica-Oblique", NEUTRAL_MUTED)
          [] k = "small"    -> ParagraphStyle("Small", "ss.Normal", "Helvetica", NEUTRAL_MUTED)
          [] k = "th"       -> ParagraphStyle("TableHeader", "ss.Normal", "Helvetica-Bold", WHITE)
          [] k = "tc"       -> ParagraphStyle("TableCell", "ss.Normal", "Helvetica", NEUTRAL_TEXT)
          [] k = "callout"  -> ParagraphStyle("Callout", "ss.Normal", "Helvetica", NEUTRAL_DARK)]

-----------------------------------------------------------------------------
(* Flowables *)

Paragraph(text, style) == [kind |-> "Paragraph", text |-> text, style |-> style]
Spacer(w, h) == [kind |-> "Spacer", height |-> h]
PageBreak == [kind |-> "PageBreak"]
Divider(width, color) == [kind |-> "Divider", width |-> width, color |-> color]
ImageFlowable(path, w, h) ==
    [kind |-> "Image", path |-> path, width |-> w, height |-> h, hAlign |-> "CENTER"]

section_header(text, styles, accent) ==
    << Spacer(1, 10),
       Paragraph(text, styles["h2c"]),
       Spacer(1, 4),
       Divider(12, accent),
       Spacer(1, 8) >>

\* A TableStyle command: (name, (col,row) start, (col,row) stop, argument).
Cmd(name, start, stop, arg) == [cmd |-> name, start |-> start, stop |-> stop, arg |-> arg]

\* colored_table with the alternating backgrounds started at the header row
colored_table_rows_from_header(data, colWidths, header_bg, grid_color) ==
    [kind |-> "Table", data |-> data, colWidths |-> colWidths, hAlign |-> "LEFT",
     style_cmds |-> <<
        Cmd("BACKGROUND", <<0, 0>>, <<-1, 0>>, <<header_bg>>),
        Cmd("LINEABOVE", <<0, 0>>, <<-1, 0>>, <<header_bg>>),
        Cmd("LINEBELOW", <<0, 0>>, <<-1, 0>>, <<header_bg>>),
        Cmd("TEXTCOLOR", <<0, 0>>, <<-1, 0>>, <<WHITE>>),
        Cmd("ALIGN", <<0, 0>>, <<-1, 0>>, <<"LEFT">>),
        Cmd("VALIGN", <<0, 0>>, <<-1, -1>>, <<"MIDDLE">>),
        Cmd("GRID", <<0, 0>>, <<-1, -1>>, <<grid_color>>),
        Cmd("ROWBACKGROUNDS", <<0, 0>>, <<-1, -1>>, <<WHITE, WHITESMOKE>>),
        Cmd("LEFTPADDING", <<0, 0>>, <<-1, -1>>, <<"8">>),
        Cmd("RIGHTPADDING", <<0, 0>>, <<-1, -1>>, <<"8">>),
        Cmd("TOPPADDING", <<0, 0>>, <<-1, -1>>, <<"6">>),
        Cmd("BOTTOMPADDING", <<0, 0>>, <<-1, -1>>, <<"6">>) >>]

colored_table(data, colWidths, header_bg, grid_color) ==
    [kind |-> "Table", data |-> data, colWidths |-> colWidths, hAlign |-> "LEFT",
     style_cmds |-> <<
        Cmd("BACKGROUND", <<0, 0>>, <<-1, 0>>, <<header_bg>>),
        Cmd("LINEABOVE", <<0, 0>>, <<-1, 0>>, <<header_bg>>),
        Cmd("LINEBELOW", <<0, 0>>, <<-1, 0>>, <<header_bg>>),
        Cmd("TEXTCOLOR", <<0, 0>>, <<-1, 0>>, <<WHITE>>),
        Cmd("ALIGN", <<0, 0>>, <<-1, 0>>, <<"LEFT">>),
        Cmd("VALIGN", <<0, 0>>, <<-1, -1>>, <<"MIDDLE">>),
        Cmd("GRID", <<0, 0>>, <<-1, -1>>, <<grid_color>>),
        Cmd("ROWBACKGROUNDS", <<0, 1>>, <<-1, -1>>, <<WHITE, WHITESMOKE>>),
        Cmd("LEFTPADDING", <<0, 0>>, <<-1, -1>>, <<"8">>),
        Cmd("RIGHTPADDING", <<0, 0>>, <<-1, -1>>, <<"8">>),
        Cmd("TOPPADDING", <<0, 0>>, <<-1, -1>>, <<"6">>),
        Cmd("BOTTOMPADDING", <<0, 0>>, <<-1, -1>>, <<"6">>) >>]

\* for k, v in rows: data.append([...])
RECURSIVE info_rows(_, _)
info_rows(rows, styles) ==
    IF rows = <<>> THEN <<>>
    ELSE << << Paragraph(Head(rows)[1], styles["tc"]),
               Paragraph(Head(rows)[2], styles["tc"]) >> >>
         \o info_rows(Tail(rows), styles)

info_table(rows, styles) ==
    colored_table(
        << << Paragraph("Field", styles["th"]), Paragraph("Details", styles["th"]) >> >>
            \o info_rows(rows, styles),
        <<17, 46>>, PRIMARY_BLUE, NEUTRAL_BORDER)

\* status_color with the two tests nested the other way round and the
\* fallback taken for 'Done'
status_color_done_falls_through(status) ==
    IF status = "In Progress" THEN SECONDARY_PURPLE
    ELSE IF status = "done" THEN PRIMARY_BLUE
    ELSE ACCENT_ORANGE

status_color(status) ==
    IF status = "In Progress" THEN SECONDARY_PURPLE
    ELSE IF status = "Done" THEN PRIMARY_BLUE
    ELSE ACCENT_ORANGE

RECURSIVE deliverables_rows(_, _)
deliverables_rows(items, styles) ==
    IF items = <<>> THEN <<>>
    ELSE << << Paragraph(Head(items)[1], styles["tc"]),
               Paragraph(Head(items)[2],
                         ParagraphStyle("Status", styles["tc"].name,
                                        "Helvetica-Bold", status_color(Head(items)[2]))) >> >>
         \o deliverables_rows(Tail(items), styles)

deliverables_table(items, styles) ==
    colored_table(
        << << Paragraph("Deliverable", styles["th"]), Paragraph("Status", styles["th"]) >> >>
            \o deliverables_rows(items, styles),
        <<45, 18>>, SECONDARY_PURPLE, NEUTRAL_BORDER)

RECURSIVE metrics_rows(_, _)
metrics_rows(metrics, styles) ==
    IF metrics = <<>> THEN <<>>
    ELSE << << Paragraph(Head(metrics)[1], styles["tc"]),
               Paragraph(Head(metrics)[2], styles["tc"]),
               Paragraph(Head(metrics)[3], styles["tc"]) >> >>
         \o metrics_rows(Tail(metrics), styles)

success_metrics_table(metrics, styles) ==
    colored_table(
        << << Paragraph("Metric", styles["th"]), Paragraph("Value", styles["th"]),
              Paragraph("Notes", styles["th"]) >> >>
            \o metrics_rows(metrics, styles),
        <<22, 16, 25>>, PRIMARY_BLUE, NEUTRAL_BORDER)

-----------------------------------------------------------------------------
(* Filesystem as the program sees it *)

FileStates == {"absent", "valid", "corrupt"}

screenshots ==
    << <<"screenshots/s3-settings.png", "S3 bucket configuration and static website settings.">>,
       <<"screenshots/bucket-policy.png", "Bucket policy allowing least-privilege access for website content.">>,
       <<"screenshots/cloudfront-distribution.png", "CloudFront distribution settings with OAC and default behavior.">>,
       <<"screenshots/website-live.png", "Live website served via CloudFront global edge locations.">>,
       <<"screenshots/week_8.png", "Deployment summary overview of resources and outcomes.">> >>

Paths == {screenshots[k][1] : k \in 1..Len(screenshots)}

\* os.path.basename on the configured paths
basename(path) ==
    CASE path = "screenshots/s3-settings.png" -> "s3-settings.png"
      [] path = "screenshots/bucket-policy.png" -> "bucket-policy.png"
      [] path = "screenshots/cloudfront-distribution.png" -> "cloudfront-distribution.png"
      [] path = "screenshots/website-live.png" -> "website-live.png"
      [] path = "screenshots/week_8.png" -> "week_8.png"

\* os.path.exists
exists(fs, path) == fs[path] # "absent"

\* Can the file be opened and decoded as an image
decodable(fs, path) == fs[path] = "valid"

-----------------------------------------------------------------------------
(* Screenshot embedder *)

\* Image(path, width=SHOT_W, height=SHOT_H) is called without `lazy`, so the
\* library default lazy=1 applies: for a path that is not a JPEG the
\* constructor records the file name and the sizes and opens nothing; the
\* file is opened and decoded when the flowable is first measured, which
\* happens inside doc.build.  Only lazy <= 0 decodes in the constructor.
lazy == 1

Image(fs, path, w, h) ==
    IF lazy <= 0 /\ ~decodable(fs, path)
    THEN [raised |-> TRUE, e |-> "cannot identify image file", value |-> <<>>]
    ELSE [raised |-> FALSE, e |-> "", value |-> ImageFlowable(path, w, h)]

MissingText(path) == "[Missing screenshot: " \o basename(path) \o "]"
ErrorText(path, e) == "[Error loading " \o basename(path) \o ": " \o e \o "]"

\* screenshot_flowable that returns nothing for a missing file
screenshot_flowable_drops_missing(fs, path, caption, styles) ==
    IF ~exists(fs, path)
    THEN <<>>
    ELSE LET img == Image(fs, path, SHOT_W, SHOT_H)
         IN  IF ~img.raised
             THEN << img.value, Paragraph(caption, styles["caption"]) >>
             ELSE << Paragraph(ErrorText(path, img.e),
                               ParagraphStyle("Err", styles["tc"].name, styles["tc"].fontName, ACCENT_ORANGE)) >>

\* screenshot_flowable without the test of os.path.exists
screenshot_flowable_no_exists_test(fs, path, caption, styles) ==
    LET img == Image(fs, path, SHOT_W, SHOT_H)
    IN  IF ~img.raised
        THEN << img.value, Paragraph(caption, styles["caption"]) >>
        ELSE << Paragraph(ErrorText(path, img.e),
                          ParagraphStyle("Err", styles["tc"].name, styles["tc"].fontName, ACCENT_ORANGE)) >>

screenshot_flowable(fs, path, caption, styles) ==
    IF ~exists(fs, path)
    THEN << Paragraph(MissingText(path),
                      ParagraphStyle("Missing", styles["tc"].name, styles["tc"].fontName, ACCENT_ORANGE)) >>
    ELSE LET img == Image(fs, path, SHOT_W, SHOT_H)
         IN  IF ~img.raised
             THEN << img.value, Paragraph(caption, styles["caption"]) >>
             ELSE << Paragraph(ErrorText(path, img.e),
                               ParagraphStyle("Err", styles["tc"].name, styles["tc"].fontName, ACCENT_ORANGE)) >>

-----------------------------------------------------------------------------
(* Report content *)

info_rows_content ==
    << <<"Project", "PROJECT_TITLE">>,
       <<"Repository", "REPO">>,
       <<"Author", "thaboxan">>,
       <<"Date", "TODAY">>,
       <<"Live URL", "<link>LIVE_URL</link>">>,
       <<"Stack", "AWS S3, AWS CloudFront, Terraform, HTML/CSS, AWS CLI">> >>

deliverables ==
    << <<"Terraform IaC for S3 + CloudFront (OAC, default root object, HTTPS)", "Done">>,
       <<"S3 bucket static website configuration and policy", "Done">>,
       <<"Build and publish site artifacts (index.html, assets)", "Done">>,
       <<"Verification screenshots (S3, CloudFront, Live)", "Done">>,
       <<"Documentation (README, PDF report)", "Done">> >>

impl_points ==
    << "Provisioned AWS resources via Terraform",
       "Restricted bucket access to CloudFront using OAC",
       "Configured default root object (index.html)",
       "Uploaded built website artifacts to S3",
       "Performed deployment validation and recorded evidence screenshots." >>

metrics ==
    << <<"Provisioning Time", "~15 minutes", "Includes CloudFront deployment propagation.">>,
       <<"Availability", ">99.9%", "Backed by AWS service SLAs.">>,
       <<"Security Posture", "OAC-enabled", "Direct S3 access restricted; HTTPS enforced.">>,
       <<"Scalability", "Global CDN", "Auto-scales via CloudFront edge network.">> >>

RECURSIVE bullets(_, _)
bullets(points, styles) ==
    IF points = <<>> THEN <<>>
    ELSE << Paragraph("* " \o Head(points), styles["body"]) >> \o bullets(Tail(points), styles)

\* build_story, from the cover page to the header of the verification section
StoryCover(styles) ==
    << Paragraph("PROJECT_TITLE", styles["title"]),
       Paragraph("PROJECT_SUBTITLE", styles["subtitle"]),
       Spacer(1, 12),
       info_table(info_rows_content, styles),
       Spacer(1, 18),
       Paragraph("Corporate-ready PDF generated via Python ReportLab with modern styling.", styles["small"]),
       PageBreak >>

StorySummary(styles) ==
    section_header("Executive Summary", styles, PRIMARY_BLUE)
    \o << Paragraph("summary_text", styles["body"]) >>

StoryRequirements(styles) ==
    section_header("Requirements", styles, SECONDARY_PURPLE)
    \o << Paragraph("Original Task Description", styles["h2"]),
          Paragraph("ORIGINAL_TASK_DESCRIPTION", styles["callout"]),
          Spacer(1, 6),
          deliverables_table(deliverables, styles),
          PageBreak >>

StoryImplementation(styles) ==
    section_header("Implementation Details", styles, PRIMARY_BLUE)
    \o bullets(impl_points, styles)
    \o << Spacer(1, 10) >>

\* StoryHead with the requirements section placed before the summary
StoryHead_requirements_first(styles) ==
    StoryCover(styles) \o StoryRequirements(styles) \o StorySummary(styles)
    \o StoryImplementation(styles)
    \o section_header("Testing & Verification", styles, SECONDARY_PURPLE)

StoryHead(styles) ==
    StoryCover(styles) \o StorySummary(styles) \o StoryRequirements(styles)
    \o StoryImplementation(styles)
    \o section_header("Testing & Verification", styles, SECONDARY_PURPLE)

\* build_story, from the page break after the screenshot loop to the end
StoryTail(styles) ==
    << PageBreak >>
    \o section_header("Conclusion", styles, PRIMARY_BLUE)
    \o << Paragraph("conclusion_text", styles["body"]),
          success_metrics_table(metrics, styles),
          Spacer(1, 18),
          Paragraph("Technical Summary", styles["h2"]),
          Paragraph("technical_summary_text", styles["body"]) >>

-----------------------------------------------------------------------------
(* The process: main, build_pdf, build_story, doc.build *)

NoTable == [kind |-> "None"]

ErrorLine(e) == "Error generating PDF: " \o e
SuccessLine == "PDF successfully created: OUTPUT_PDF"

Init ==
    /\ pc = "main"
    /\ files \in [Paths -> FileStates]
    /\ outWritable \in BOOLEAN
    /\ diskFull \in BOOLEAN
    /\ outFile \in {"none", "old"}
    /\ story = <<>>
    /\ missing = <<>>
    /\ idx = 1
    /\ exc = ""
    /\ rc = -1
    /\ stdout = <<>>
    /\ stderr = <<>>
    /\ exitCode = -1
    /\ changes = 0
    /\ tblKind = "none"
    /\ tblRows = <<>>
    /\ tblOut = NoTable

\* __main__: out = OUTPUT_PDF; build_pdf(out) is entered and the
\* SimpleDocTemplate is constructed, which records the file name and the
\* page geometry and opens nothing.
EnterBuildPdf ==
    /\ pc = "main"
    /\ pc' = "build_story"
    /\ UNCHANGED <<files, outWritable, diskFull, outFile, story, missing, idx, exc,
                   rc, stdout, stderr, exitCode, changes, tblKind, tblRows, tblOut>>

\* build_story up to the screenshot loop
BuildStoryHead ==
    /\ pc = "build_story"
    /\ story' = StoryHead(build_styles)
    /\ missing' = <<>>
    /\ idx' = 1
    /\ pc' = "loop_check"
    /\ UNCHANGED <<files, outWritable, diskFull, outFile, exc,
                   rc, stdout, stderr, exitCode, changes, tblKind, tblRows, tblOut>>

\* Loop body, first statement: if not os.path.exists(pth): missing.append(...)
LoopCheck ==
    /\ pc = "loop_check"
    /\ idx <= Len(screenshots)
    /\ missing' = IF ~exists(files, screenshots[idx][1])
                  THEN Append(missing, basename(screenshots[idx][1]))
                  ELSE missing
    /\ pc' = "loop_emit"
    /\ UNCHANGED <<files, outWritable, diskFull, outFile, story, idx, exc,
                   rc, stdout, stderr, exitCode, changes, tblKind, tblRows, tblOut>>

\* Loop body, rest: story += screenshot_flowable(...); story.append(Spacer(1, 16))
LoopEmit ==
    /\ pc = "loop_emit"
    /\ story' = story
                \o screenshot_flowable(files, screenshots[idx][1], screenshots[idx][2], build_styles)
                \o << Spacer(1, 16) >>
    /\ idx' = idx + 1
    /\ pc' = "loop_check"
    /\ UNCHANGED <<files, outWritable, diskFull, outFile, missing, exc,
                   rc, stdout, stderr, exitCode, changes, tblKind, tblRows, tblOut>>

\* build_story after the loop; it returns the story to build_pdf
BuildStoryTail ==
    /\ pc = "loop_check"
    /\ idx > Len(screenshots)
    /\ story' = story \o StoryTail(build_styles)
    /\ pc' = "doc_build"
    /\ UNCHANGED <<files, outWritable, diskFull, outFile, missing, idx, exc,
                   rc, stdout, stderr, exitCode, changes, tblKind, tblRows, tblOut>>

\* The image flowables of the story that cannot be decoded when laid out
Undecodable(fs, st) ==
    {k \in 1..Len(st) : st[k].kind = "Image" /\ ~decodable(fs, st[k].path)}

\* doc.build(story), layout: every flowable is measured and drawn; a lazy
\* Image opens and decodes its file here.  Nothing has touched the output
\* path so far.
DocBuildLayout ==
    /\ pc = "doc_build"
    /\ IF Undecodable(files, story) # {}
       THEN /\ exc' = "cannot identify image file"
            /\ pc' = "except"
       ELSE /\ exc' = exc
            /\ pc' = "save_open"
    /\ UNCHANGED <<files, outWritable, diskFull, outFile, story, missing, idx,
                   rc, stdout, stderr, exitCode, changes, tblKind, tblRows, tblOut>>

\* doc.build(story), canvas.save(): open(filename, "wb") creates or truncates
\* the output file, or raises when the path cannot be opened for writing.
SaveOpen ==
    /\ pc = "save_open"
    /\ IF ~outWritable
       THEN /\ exc' = "Permission denied"
            /\ pc' = "except"
            /\ outFile' = outFile
       ELSE /\ exc' = exc
            /\ pc' = "save_write"
            /\ outFile' = "partial"
    /\ UNCHANGED <<files, outWritable, diskFull, story, missing, idx,
                   rc, stdout, stderr, exitCode, changes, tblKind, tblRows, tblOut>>

\* doc.build(story), canvas.save(): f.write(data); f.close(); then return 0
SaveWrite ==
    /\ pc = "save_write"
    /\ IF diskFull
       THEN /\ exc' = "No space left on device"
            /\ pc' = "except"
            /\ outFile' = outFile
            /\ rc' = rc
       ELSE /\ exc' = exc
            /\ pc' = "returned"
            /\ outFile' = "complete"
            /\ rc' = 0
    /\ UNCHANGED <<files, outWritable, diskFull, story, missing, idx,
                   stdout, stderr, exitCode, changes, tblKind, tblRows, tblOut>>

\* The handler of build_pdf returning 0 after printing the message
Except_returns_success ==
    /\ pc = "except"
    /\ stdout' = Append(stdout, ErrorLine(exc))
    /\ rc' = 0
    /\ exc' = ""
    /\ pc' = "returned"
    /\ UNCHANGED <<files, outWritable, diskFull, outFile, story, missing, idx,
                   stderr, exitCode, changes, tblKind, tblRows, tblOut>>

\* except Exception as e: print(f"Error generating PDF: {e}"); return 1
Except ==
    /\ pc = "except"
    /\ stdout' = Append(stdout, ErrorLine(exc))
    /\ rc' = 1
    /\ exc' = ""
    /\ pc' = "returned"
    /\ UNCHANGED <<files, outWritable, diskFull, outFile, story, missing, idx,
                   stderr, exitCode, changes, tblKind, tblRows, tblOut>>

\* __main__ after build_pdf: print the success line, or sys.exit(rc)
MainExit ==
    /\ pc = "returned"
    /\ IF rc = 0
       THEN /\ stdout' = Append(stdout, SuccessLine)
            /\ exitCode' = 0
       ELSE /\ stdout' = stdout
            /\ exitCode' = rc
    /\ pc' = "done"
    /\ UNCHANGED <<files, outWritable, diskFull, outFile, story, missing, idx, exc,
                   rc, stderr, changes, tblKind, tblRows, tblOut>>

Next ==
    \/ EnterBuildPdf
    \/ BuildStoryHead
    \/ LoopCheck
    \/ LoopEmit
    \/ BuildStoryTail
    \/ DocBuildLayout
    \/ SaveOpen
    \/ SaveWrite
    \/ Except
    \/ MainExit

Spec == Init /\ [][Next]_vars

-----------------------------------------------------------------------------
(* The same process with an environment that creates, deletes or damages   *)
(* screenshot files while the process runs                                  *)

EnvChange ==
    /\ pc # "done"
    /\ changes < MaxEnvChanges
    /\ \E p \in Paths, s \in FileStates :
          /\ s # files[p]
          /\ files' = [files EXCEPT ![p] = s]
    /\ changes' = changes + 1
    /\ UNCHANGED <<pc, outWritable, diskFull, outFile, story, missing, idx, exc,
                   rc, stdout, stderr, exitCode, tblKind, tblRows, tblOut>>

NextRace == Next \/ EnvChange

SpecRace == Init /\ [][NextRace]_vars

-----------------------------------------------------------------------------
(* The table builders applied to arbitrary rows *)

BoundedSeq(S, n) == UNION {[1..m -> S] : m \in 0..n}

CellTexts == {"a", "b"}
StatusLabels == {"Done", "In Progress", "Blocked", "done"}

InitTables ==
    /\ pc = "tables"
    /\ files = [p \in Paths |-> "absent"]
    /\ outWritable = TRUE
    /\ diskFull = FALSE
    /\ outFile = "none"
    /\ story = <<>>
    /\ missing = <<>>
    /\ idx = 1
    /\ exc = ""
    /\ rc = -1
    /\ stdout = <<>>
    /\ stderr = <<>>
    /\ exitCode = -1
    /\ changes = 0
    /\ tblOut = NoTable
    /\ \/ /\ tblKind = "info"
          /\ tblRows \in BoundedSeq(CellTexts \X CellTexts, MaxRows)
       \/ /\ tblKind = "deliverables"
          /\ tblRows \in BoundedSeq(CellTexts \X StatusLabels, MaxRows)
       \/ /\ tblKind = "metrics"
          /\ tblRows \in BoundedSeq(CellTexts \X CellTexts \X CellTexts, MaxRows)

ApplyInfoTable ==
    /\ pc = "tables" /\ tblKind = "info"
    /\ tblOut' = info_table(tblRows, build_styles)
    /\ pc' = "tables_done"
    /\ UNCHANGED <<files, outWritable, diskFull, outFile, story, missing, idx, exc,
                   rc, stdout, stderr, exitCode, changes, tblKind, tblRows>>

ApplyDeliverablesTable ==
    /\ pc = "tables" /\ tblKind = "deliverables"
    /\ tblOut' = deliverables_table(tblRows, build_styles)
    /\ pc' = "tables_done"
    /\ UNCHANGED <<files, outWritable, diskFull, outFile, story, missing, idx, exc,
                   rc, stdout, stderr, exitCode, changes, tblKind, tblRows>>

ApplyMetricsTable ==
    /\ pc = "tables" /\ tblKind = "metrics"
    /\ tblOut' = success_metrics_table(tblRows, build_styles)
    /\ pc' = "tables_done"
    /\ UNCHANGED <<files, outWritable, diskFull, outFile, story, missing, idx, exc,
                   rc, stdout, stderr, exitCode, changes, tblKind, tblRows>>

NextTables == ApplyInfoTable \/ ApplyDeliverablesTable \/ ApplyMetricsTable

SpecTables == InitTables /\ [][NextTables]_vars

-----------------------------------------------------------------------------
(* Vocabulary of the properties *)

\* build_story has returned
StoryBuilt == pc \in {"doc_build", "save_open", "save_write", "except", "returned", "done"}

\* build_pdf has returned
Returned == pc \in {"returned", "done"}

\* The output path holds what it held before the run
Untouched == outFile \in {"none", "old"}

ErrorMessages == {"cannot identify image file", "Permission denied", "No space left on device"}

InSeq(x, sq) == \E k \in 1..Len(sq) : sq[k] = x

IsPara(f) == f.kind = "Paragraph"
IsHeader(f, text) == IsPara(f) /\ f.style = build_styles["h2c"] /\ f.text = text
IsPlaceholder(f) == IsPara(f) /\ f.style.name = "Missing"
IsTableOf(f, firstHeader) == f.kind = "Table" /\ f.data[1][1].text = firstHeader

Positions(P(_)) == {k \in 1..Len(story) : P(story[k])}

\* The part of the story between the verification header and the page
\* break that ends the verification section
HeadLen == Len(StoryHead(build_styles))
TailLen == Len(StoryTail(build_styles))
VerifSection == SubSeq(story, HeadLen + 1, Len(story) - TailLen)

\* What a flowable shows: its kind and the file or text it carries
Shape(f) ==
    IF f.kind = "Image" THEN <<"Image", f.path>>
    ELSE IF f.kind = "Paragraph" THEN <<"Paragraph", f.text>>
    ELSE IF f.kind = "Spacer" THEN <<"Spacer", "">>
    ELSE <<f.kind, "">>

Shapes(sq) == [k \in 1..Len(sq) |-> Shape(sq[k])]

\* The blocks the claims expect for screenshots k..n, from the file states
RECURSIVE ExpectedBlocks(_)
ExpectedBlocks(k) ==
    IF k > Len(screenshots) THEN <<>>
    ELSE (IF files[screenshots[k][1]] = "absent"
          THEN << <<"Paragraph", "[Missing screenshot: " \o basename(screenshots[k][1]) \o "]">> >>
          ELSE << <<"Image", screenshots[k][1]>>, <<"Paragraph", screenshots[k][2]>> >>)
         \o << <<"Spacer", "">> >>
         \o ExpectedBlocks(k + 1)

\* The base names of the placeholders of a story, in story order
RECURSIVE PlaceholderNames(_)
PlaceholderNames(sq) ==
    IF sq = <<>> THEN <<>>
    ELSE (IF IsPlaceholder(Head(sq))
          THEN << basename(CHOOSE p \in Paths : MissingText(p) = Head(sq).text) >>
          ELSE <<>>)
         \o PlaceholderNames(Tail(sq))

\* The run meets a failure of the filesystem
RunFails == Undecodable(files, story) # {} \/ ~outWritable \/ diskFull

-----------------------------------------------------------------------------
(* C1 *)

\* C1: build_pdf never lets a failure escape.  An exception in flight is
\* always on its way to the handler of build_pdf; once build_pdf has
\* returned, its result is 1 with exactly one "Error generating PDF" line
\* printed if the run met a failure (undecodable embedded image, unwritable
\* path, disk full), and 0 otherwise; 0 is returned only when doc.build
\* completed, that is when the output file was written completely.
C1_FailureNeverEscapes ==
    /\ exc # "" => pc = "except" /\ exc \in ErrorMessages
    /\ Returned =>
        /\ rc \in {0, 1}
        /\ RunFails <=> rc = 1
        /\ rc = 1 => \E e \in ErrorMessages : stdout = << ErrorLine(e) >>
        /\ rc = 0 => outFile = "complete" /\ ~RunFails

\* Witness of C1: the write failed on a full disk and build_pdf returned 1
C1_Witness ==
    /\ pc = "done" /\ rc = 1
    /\ outWritable /\ diskFull
    /\ stdout = << ErrorLine("No space left on device") >>

-----------------------------------------------------------------------------
(* C2 *)

\* C2: a screenshot file that exists but cannot be decoded is turned into
\* the warning paragraph inside screenshot_flowable, so that no image of the
\* story is undecodable and no decoding failure is raised during rendering.
C2_DecodeFailureCaughtInEmbedder ==
    /\ \A k \in 1..Len(story) :
          story[k].kind = "Image" => decodable(files, story[k].path)
    /\ exc # "cannot identify image file"

-----------------------------------------------------------------------------
(* C3 *)

\* C3: for every set of missing screenshot files the story returned by
\* build_story holds, between the verification header and the closing page
\* break, one block per configured screenshot in the configured order, each
\* followed by one Spacer: Image and caption when the file is present, one
\* placeholder paragraph when it is missing; the flowables before and after
\* are those of every other run.
C3_OneBlockPerScreenshot ==
    StoryBuilt =>
        /\ Len(story) >= HeadLen + TailLen
        /\ SubSeq(story, 1, HeadLen) = StoryHead(build_styles)
        /\ SubSeq(story, Len(story) - TailLen + 1, Len(story)) = StoryTail(build_styles)
        /\ Shapes(VerifSection) = ExpectedBlocks(1)
        /\ \A k \in 1..Len(VerifSection) :
              /\ VerifSection[k].kind = "Spacer" => VerifSection[k].height = 16
              /\ VerifSection[k].kind = "Image" =>
                    VerifSection[k].width = 468 /\ VerifSection[k].height = 288
              /\ IsPara(VerifSection[k]) =>
                    VerifSection[k].style.name \in {"Missing", "Caption"}
              /\ IsPlaceholder(VerifSection[k]) =>
                    VerifSection[k].style.textColor = "#F18F01"

\* Witness of C3: a story built with the first file missing, the second
\* present and the last missing
C3_Witness ==
    /\ pc = "doc_build"
    /\ files[screenshots[1][1]] = "absent"
    /\ files[screenshots[2][1]] = "valid"
    /\ files[screenshots[5][1]] = "absent"

-----------------------------------------------------------------------------
(* C4 *)

\* C4: absence of screenshot files alone never makes the run fail: when no
\* screenshot file is damaged and the output path can be opened and written,
\* whatever files are missing, build_pdf returns 0, the output file is
\* complete and the story rendered had a block for every screenshot.
C4_MissingAloneNeverFails ==
    (Returned /\ outWritable /\ ~diskFull /\ \A p \in Paths : files[p] # "corrupt") =>
        /\ rc = 0
        /\ outFile = "complete"
        /\ \A p \in Paths :
              \E k \in 1..Len(story) :
                 \/ story[k].kind = "Image" /\ story[k].path = p
                 \/ IsPlaceholder(story[k]) /\ story[k].text = MissingText(p)

\* Witness of C4: all five screenshots missing and the run succeeded
C4_Witness ==
    /\ pc = "done" /\ rc = 0 /\ exitCode = 0
    /\ \A p \in Paths : files[p] = "absent"
    /\ outFile = "complete"

-----------------------------------------------------------------------------
(* C5 *)

\* C5: the exit code is 0 exactly when build_pdf returned 0; on failure the
\* diagnostic is written to the error channel and not to standard output;
\* the success line is printed only on success.
C5_ExitCodeAndErrorChannel ==
    pc = "done" =>
        /\ exitCode = 0 <=> rc = 0
        /\ rc # 0 => exitCode # 0
        /\ rc # 0 =>
              /\ \E e \in ErrorMessages : InSeq(ErrorLine(e), stderr)
              /\ \A e \in ErrorMessages : ~InSeq(ErrorLine(e), stdout)
        /\ InSeq(SuccessLine, stdout) => rc = 0

-----------------------------------------------------------------------------
(* C6 *)

TablesDone == pc = "tables_done"

\* The grid has one header row, in the header style, with the titles of the
\* builder applied, then the data rows in input order
HeaderTitles ==
    CASE tblKind = "info" -> <<"Field", "Details">>
      [] tblKind = "deliverables" -> <<"Deliverable", "Status">>
      [] tblKind = "metrics" -> <<"Metric", "Value", "Notes">>

GridShape ==
    /\ tblOut.kind = "Table"
    /\ Len(tblOut.data) = Len(tblRows) + 1
    /\ Len(tblOut.data[1]) = Len(HeaderTitles)
    /\ \A c \in 1..Len(HeaderTitles) :
          /\ tblOut.data[1][c].style = build_styles["th"]
          /\ tblOut.data[1][c].text = HeaderTitles[c]
    /\ \A r \in 1..Len(tblRows) :
          /\ Len(tblOut.data[r + 1]) = Len(tblRows[r])
          /\ \A c \in 1..Len(tblRows[r]) :
                /\ IsPara(tblOut.data[r + 1][c])
                /\ tblOut.data[r + 1][c].text = tblRows[r][c]

\* The header rules cover row 0 only, the alternating backgrounds start at row 1
HeaderRules ==
    /\ \A k \in 1..Len(tblOut.style_cmds) :
          LET c == tblOut.style_cmds[k]
          IN  /\ c.cmd \in {"BACKGROUND", "LINEABOVE", "LINEBELOW", "TEXTCOLOR", "ALIGN"} =>
                    c.start = <<0, 0>> /\ c.stop = <<-1, 0>>
              /\ c.cmd = "ROWBACKGROUNDS" => c.start = <<0, 1>> /\ c.stop = <<-1, -1>>
    /\ \E k \in 1..Len(tblOut.style_cmds) : tblOut.style_cmds[k].cmd = "BACKGROUND"
    /\ \E k \in 1..Len(tblOut.style_cmds) : tblOut.style_cmds[k].cmd = "ROWBACKGROUNDS"

\* C6 as stated: every table builder, given N data rows, passes a grid of
\* N+1 rows whose row 0 is the header in style 'th' and whose rows 1..N are
\* the data rows in input order, every data cell built with the cell style
\* 'tc'; the header rules cover row 0 only and the alternating backgrounds
\* start at row 1.
C6_AllDataCellsInCellStyle ==
    TablesDone =>
        /\ GridShape
        /\ HeaderRules
        /\ \A r \in 1..Len(tblRows) : \A c \in 1..Len(tblRows[r]) :
              tblOut.data[r + 1][c].style = build_styles["tc"]

\* C6 amended: as stated, except that the status cell (second column) of a
\* deliverables_table row is built with a style of its own, named "Status",
\* whose parent is the cell style 'tc' and whose font is bold; every other
\* data cell is built with 'tc' itself.
C6_GridOfHeaderAndDataRows ==
    TablesDone =>
        /\ GridShape
        /\ HeaderRules
        /\ \A r \in 1..Len(tblRows) : \A c \in 1..Len(tblRows[r]) :
              LET st == tblOut.data[r + 1][c].style
              IN  IF tblKind = "deliverables" /\ c = 2
                  THEN /\ st.name = "Status"
                       /\ st.parent = build_styles["tc"].name
                       /\ st.fontName = "Helvetica-Bold"
                  ELSE st = build_styles["tc"]

\* Witness of C6: deliverables_table applied to two rows
C6_Witness ==
    /\ TablesDone
    /\ tblKind = "deliverables"
    /\ Len(tblRows) = 2
    /\ Len(tblOut.data) = 3

-----------------------------------------------------------------------------
(* C7 *)

SectionTitles ==
    << "Executive Summary", "Requirements", "Implementation Details",
       "Testing & Verification", "Conclusion" >>

\* The position of the header of section n (its only position, by C7)
HeaderAt(n) == CHOOSE k \in 1..Len(story) : IsHeader(story[k], SectionTitles[n])

\* The section a position of the story lies in: 0 for the cover, n for the
\* section whose header is the last one at or before the position
SectionOf(k) ==
    Cardinality({n \in 1..Len(SectionTitles) :
                    \E j \in 1..k : IsHeader(story[j], SectionTitles[n])})

\* The section a flowable belongs to by what it is, for the flowables that
\* belong to one section only
Belongs(f) ==
    IF IsPara(f) /\ f.style = build_styles["title"] THEN {0}
    ELSE IF IsPara(f) /\ f.style = build_styles["subtitle"] THEN {0}
    ELSE IF IsTableOf(f, "Field") THEN {0}
    ELSE IF IsPara(f) /\ f.text = "summary_text" THEN {1}
    ELSE IF IsPara(f) /\ f.style = build_styles["callout"] THEN {2}
    ELSE IF IsTableOf(f, "Deliverable") THEN {2}
    ELSE IF IsPara(f) /\ f.text \in {"* " \o impl_points[k] : k \in 1..Len(impl_points)} THEN {3}
    ELSE IF f.kind = "Image" THEN {4}
    ELSE IF IsPara(f) /\ f.style.name \in {"Missing", "Err", "Caption"} THEN {4}
    ELSE IF IsPara(f) /\ f.text = "conclusion_text" THEN {5}
    ELSE IF IsTableOf(f, "Metric") THEN {5}
    ELSE IF IsPara(f) /\ f.text \in {"Technical Summary", "technical_summary_text"} THEN {5}
    ELSE 0..5

IsSectionHeader(f) == IsPara(f) /\ f.style = build_styles["h2c"]
IsDeliverables(f) == IsTableOf(f, "Deliverable")
IsMetrics(f) == IsTableOf(f, "Metric")
IsTechSummary(f) == IsPara(f) /\ f.text = "Technical Summary"
IsTitle(f) == IsPara(f) /\ f.style = build_styles["title"]

\* C7: in every story returned by build_story the five section headers
\* appear once each, in the order executive summary, requirements,
\* implementation details, testing/verification, conclusion, after the cover;
\* every flowable lies in the section it belongs to, so none of a later
\* section precedes one of an earlier section; the deliverables table lies in
\* the requirements section and the metrics table in the conclusion, before
\* the technical summary.
C7_SectionsInFixedOrder ==
    StoryBuilt =>
        /\ Cardinality(Positions(IsSectionHeader)) = Len(SectionTitles)
        /\ \A n \in 1..Len(SectionTitles) :
              Cardinality({k \in 1..Len(story) : IsHeader(story[k], SectionTitles[n])}) = 1
        /\ \A n \in 1..(Len(SectionTitles) - 1) : HeaderAt(n) < HeaderAt(n + 1)
        /\ Positions(IsTitle) = {1}
        /\ \A k \in 1..Len(story) : SectionOf(k) \in Belongs(story[k])
        /\ Cardinality(Positions(IsDeliverables)) = 1
        /\ Cardinality(Positions(IsMetrics)) = 1
        /\ Cardinality(Positions(IsTechSummary)) = 1
        /\ \A k \in Positions(IsMetrics) : \A j \in Positions(IsTechSummary) : k < j
        /\ \A k \in Positions(IsTechSummary) : k = Len(story) - 1

\* Witness of C7: a complete story with a missing and a present screenshot,
\* rendered to the end
C7_Witness ==
    /\ pc = "done" /\ rc = 0
    /\ files[screenshots[3][1]] = "absent"
    /\ files[screenshots[4][1]] = "valid"
    /\ Len(story) > HeadLen + TailLen

-----------------------------------------------------------------------------
(* C8 *)

\* C8: deliverables_table gives the status cell of every row the colour of a
\* fixed three-way rule: 'Done' the primary blue, 'In Progress' the
\* secondary purple, every other label the accent orange; the three colours
\* are pairwise distinct.
C8_StatusColours ==
    (TablesDone /\ tblKind = "deliverables") =>
        /\ \A r \in 1..Len(tblRows) :
              LET label == tblRows[r][2]
                  colour == tblOut.data[r + 1][2].style.textColor
              IN  /\ label = "Done" => colour = "#2E86AB"
                  /\ label = "In Progress" => colour = "#A23B72"
                  /\ label \notin {"Done", "In Progress"} => colour = "#F18F01"
        /\ Cardinality({status_color(l) : l \in StatusLabels}) = 3

\* Witness of C8: a deliverables table with an 'In Progress' row and a row
\* of another label
C8_Witness ==
    /\ TablesDone /\ tblKind = "deliverables"
    /\ Len(tblRows) = 2
    /\ tblRows[1][2] = "In Progress"
    /\ tblRows[2][2] = "Blocked"
    /\ tblOut.data[3][2].style.textColor = "#F18F01"

-----------------------------------------------------------------------------
(* C9 *)

\* C9: the output file is written in one pass at the end or not at all:
\* nothing is written to the output path before build_story has completed,
\* and whenever build_pdf has returned 1 the output path holds what it held
\* before the run (no partial file).
C9_OutputWrittenAtomically ==
    /\ ~StoryBuilt => Untouched
    /\ (Returned /\ rc = 1) => Untouched

-----------------------------------------------------------------------------
(* C10 *)

\* C10: once the screenshot loop has ended, the list `missing` names exactly
\* the screenshots for which a "[Missing screenshot: ...]" placeholder is in
\* the story, in the configured order.
C10_MissingListMatchesPlaceholders ==
    StoryBuilt => missing = PlaceholderNames(story)

====
